---- MODULE Spec2Model ----
(***************************************************************************)
(* Model of groups/reconcile.go: loading restrictions.yaml, walking the    *)
(* groups tree and merging every groups.yaml fragment under its            *)
(* restriction, then reconciling the merged list against the directory     *)
(* and settings services.                                                  *)
(*                                                                         *)
(* Strings that the code inspects (email-ids, regular expressions) are     *)
(* sequences of one-character strings; paths and globs are sequences of    *)
(* path segments.                                                          *)
(***************************************************************************)
EXTENDS Integers, Sequences, FiniteSets, TLC

VARIABLES pc, err, restrictionsFile, restrictions, walkPos,
          visited, groups, origin, lastMerge, loaded, secretAccessed,
          gi, step, calls, failures

vars == <<pc, err, restrictionsFile, restrictions, walkPos,
          visited, groups, origin, lastMerge, loaded, secretAccessed,
          gi, step, calls, failures>>

(* ------------------------------ bounds -------------------------------- *)
\* restrictions in restrictions.yaml
MaxRestrictions == 2
\* groups declared in the whole tree
MaxGroups == 2
\* client calls that fail in one run
MaxFailures == 2

(* ------------------------------ helpers ------------------------------- *)
Range(s) == {s[i] : i \in DOMAIN s}

IsPrefix(s, t) == Len(s) <= Len(t) /\ SubSeq(t, 1, Len(s)) = s

SeqsUpTo(S, n) == UNION {[1..k -> S] : k \in 0..n}

(* ------------------------------ constants ----------------------------- *)
ownerRole == "OWNER"
managerRole == "MANAGER"
memberRole == "MEMBER"

(* ------------------------------ regexp -------------------------------- *)
\* regexp.Compile on the patterns used here: an optional leading ^, a
\* literal, an optional trailing $; an unclosed ( is a syntax error.
CompileOK(p) == \A i \in DOMAIN p : p[i] # "("

Compile(p) ==
  LET anchS == Len(p) > 0 /\ p[1] = "^"
      rest == IF anchS THEN Tail(p) ELSE p
      anchE == Len(rest) > 0 /\ rest[Len(rest)] = "$"
      lit == IF anchE THEN SubSeq(rest, 1, Len(rest) - 1) ELSE rest
  IN [anchS |-> anchS, lit |-> lit, anchE |-> anchE]

\* (*regexp.Regexp).MatchString: unanchored search unless anchored.
MatchString(re, s) ==
  \E i \in 1..(Len(s) + 1) :
    /\ i + Len(re.lit) - 1 <= Len(s)
    /\ SubSeq(s, i, i + Len(re.lit) - 1) = re.lit
    /\ re.anchS => i = 1
    /\ re.anchE => i + Len(re.lit) - 1 = Len(s)

emptyRegexp == Compile(<<>>)

defaultRestriction ==
  [Path |-> <<"*">>, AllowedGroups |-> <<>>, AllowedGroupsRe |-> <<emptyRegexp>>]

(* ------------------------------ doublestar ---------------------------- *)
\* A glob segment "[" is an unterminated character class (ErrBadPattern).
BadGlob(pattern) == \E i \in DOMAIN pattern : pattern[i] = "["

SegMatch(ps, s) == ps = "*" \/ ps = s

RECURSIVE GlobMatch(_, _)
GlobMatch(pattern, name) ==
  IF pattern = <<>> THEN name = <<>>
  ELSE IF Head(pattern) = "**"
       THEN GlobMatch(Tail(pattern), name)
            \/ (name # <<>> /\ GlobMatch(pattern, Tail(name)))
       ELSE /\ name # <<>>
            /\ SegMatch(Head(pattern), Head(name))
            /\ GlobMatch(Tail(pattern), Tail(name))

\* doublestar.Match(pattern, name) -> (bool, error)
Match(pattern, name) ==
  IF BadGlob(pattern) THEN [match |-> FALSE, err |-> TRUE]
  ELSE [match |-> GlobMatch(pattern, name), err |-> FALSE]

(* ------------------------------ inputs -------------------------------- *)
ta == <<"t", "a">>
xb == <<"x", "b">>

Group(e, s, o, m, p) ==
  [EmailId |-> e, Settings |-> s, Owners |-> o, Managers |-> m, Members |-> p]

GroupDefs ==
  { Group(ta, {<<"ReconcileMembers", "true">>}, <<"o">>, <<"m">>, <<"p">>),
    Group(xb, {<<"ReconcileMembers", "True">>}, <<>>, <<"m">>, <<"q">>),
    Group(ta, {}, <<"o">>, <<>>, <<"p">>),
    Group(<<>>, {}, <<"o">>, <<>>, <<>>) }

Fragments == SeqsUpTo(GroupDefs, MaxGroups)

RestrictionDef(p, a) == [Path |-> p, AllowedGroups |-> a]

RestrictionDefs ==
  { RestrictionDef(<<"team", "*">>, <<<<"^", "x", "a">>, <<"^", "t">>>>),
    RestrictionDef(<<"**">>, <<>>),
    RestrictionDef(<<"[">>, <<<<"b", "$">>>>),
    RestrictionDef(<<"team", "**">>, <<<<"(">>>>) }

RestrictionFiles == SeqsUpTo(RestrictionDefs, MaxRestrictions)

rootDir == <<"r">>

\* The entries of the groups tree in filepath.Walk (lexical) order.
Entries ==
  << <<"r">>,
     <<"r", "groups.yaml">>,
     <<"r", "team", "groups.yaml">> >>

Base(path) == path[Len(path)]

\* strings.Trim(strings.TrimPrefix(path, rootDir), "/")
CleanPath(path, root) ==
  IF IsPrefix(root, path) THEN SubSeq(path, Len(root) + 1, Len(path)) ELSE path

\* map lookup: the zero value "" for a missing key
Lookup(m, k) ==
  IF \E kv \in m : kv[1] = k THEN (CHOOSE kv \in m : kv[1] = k)[2] ELSE ""

NoMerge == [ok |-> FALSE, called |-> FALSE, a |-> <<>>, b |-> <<>>,
            r |-> defaultRestriction, path |-> <<>>, err |-> ""]

(* ------------------------- RestrictionsConfig ------------------------- *)
\* (rc *RestrictionsConfig) Load, after the file was read and parsed: every
\* allowedGroups pattern is compiled; the first failure fails the load.
RestrictionsLoad(file) ==
  IF \E i \in DOMAIN file :
       \E j \in DOMAIN file[i].AllowedGroups : ~CompileOK(file[i].AllowedGroups[j])
  THEN [err |-> "pattern",
        Restrictions |-> [i \in DOMAIN file |->
           [Path |-> file[i].Path, AllowedGroups |-> file[i].AllowedGroups,
            AllowedGroupsRe |-> <<>>]]]
  ELSE [err |-> "",
        Restrictions |-> [i \in DOMAIN file |->
           [Path |-> file[i].Path, AllowedGroups |-> file[i].AllowedGroups,
            AllowedGroupsRe |-> [j \in DOMAIN file[i].AllowedGroups |->
                                   Compile(file[i].AllowedGroups[j])]]]]

\* The loop of GetRestrictionForPath over rc.Restrictions.
RECURSIVE FirstRestriction(_, _)
FirstRestriction(rs, cleanPath) ==
  IF rs = <<>> THEN defaultRestriction
  ELSE LET m == Match(Head(rs).Path, cleanPath)
       IN IF ~m.err /\ m.match THEN Head(rs)
          ELSE FirstRestriction(Tail(rs), cleanPath)

\* GetRestrictionForPath without the lookup.
GetRestrictionForPath_Default(rs, path, root) == defaultRestriction

\* GetRestrictionForPath that keeps searching and returns the last match.
RECURSIVE LastRestriction(_, _, _)
LastRestriction(rs, cleanPath, found) ==
  IF rs = <<>> THEN found
  ELSE LET m == Match(Head(rs).Path, cleanPath)
       IN LastRestriction(Tail(rs), cleanPath,
                          IF ~m.err /\ m.match THEN Head(rs) ELSE found)

GetRestrictionForPath_LastMatch(rs, path, root) ==
  LastRestriction(rs, CleanPath(path, root), defaultRestriction)

GetRestrictionForPath(rs, path, root) ==
  FirstRestriction(rs, CleanPath(path, root))

(* ------------------------------ merge --------------------------------- *)
RECURSIVE matchesRegexList(_, _)
matchesRegexList(s, list) ==
  IF list = <<>> THEN FALSE
  ELSE IF MatchString(Head(list), s) THEN TRUE
       ELSE matchesRegexList(s, Tail(list))

\* The loop of mergeGroups over b; emails is built from a only.
RECURSIVE checkGroups(_, _, _)
checkGroups(b, emails, r) ==
  IF b = <<>> THEN ""
  ELSE LET v == Head(b)
       IN IF v.EmailId = <<>> THEN "empty"
          ELSE IF ~matchesRegexList(v.EmailId, r.AllowedGroupsRe) THEN "restriction"
          ELSE IF v.EmailId \in emails THEN "duplicate"
          ELSE checkGroups(Tail(b), emails, r)

\* mergeGroups that never fills the emails set.
mergeGroups_NoDuplicateCheck(a, b, r) ==
  LET e == checkGroups(b, {}, r)
  IN IF e # "" THEN [groups |-> <<>>, err |-> e]
     ELSE [groups |-> a \o b, err |-> ""]

\* mergeGroups that puts the fragment in front of the accumulator.
mergeGroups_Prepend(a, b, r) ==
  LET emails == {a[i].EmailId : i \in DOMAIN a}
      e == checkGroups(b, emails, r)
  IN IF e # "" THEN [groups |-> <<>>, err |-> e]
     ELSE [groups |-> b \o a, err |-> ""]

mergeGroups(a, b, r) ==
  LET emails == {a[i].EmailId : i \in DOMAIN a}
      e == checkGroups(b, emails, r)
  IN IF e # "" THEN [groups |-> <<>>, err |-> e]
     ELSE [groups |-> a \o b, err |-> ""]

\* The walk callback of (gc *GroupsConfig) Load on a parsed groups.yaml:
\* the new value of gc.Groups and the error it returns.
LoadFragment(acc, b, r) ==
  LET m == mergeGroups(acc, b, r)
  IN IF m.err # "" THEN [groups |-> acc, err |-> m.err]
     ELSE [groups |-> m.groups, err |-> ""]

(* ------------------------------ main ---------------------------------- *)
\* main after restrictionsConfig.Load returned e
AfterRestrictionsLoad(e) == IF e # "" THEN "fatal" ELSE "walk"

\* main that drops the error of groupsConfig.Load.
AfterGroupsLoad_Ignore(e) == "connect"

\* main after groupsConfig.Load returned e
AfterGroupsLoad(e) == IF e # "" THEN "fatal" ELSE "connect"

\* The head of the loop in reconcileGroups for iteration i.
LoopHead(gs, i) ==
  IF i > Len(gs) THEN [step |-> "delete", err |-> ""]
  ELSE IF gs[i].EmailId = <<>> THEN [step |-> "return", err |-> "no email-id"]
  ELSE [step |-> "create", err |-> ""]

\* reconcileGroups that returns the error of the MEMBER step too.
Returns_Always(s) == TRUE

\* A failing step of reconcileGroups: does the function return the error?
Returns(s) == s # "members"

\* reconcileGroups that adds managers before owners.
StepAfter_ManagersFirst(s) ==
  CASE s = "create" -> "settings"
    [] s = "settings" -> "managers"
    [] s = "managers" -> "owners"
    [] s = "owners" -> "members"
    [] s = "members" -> "remove"

\* The step after step s of the loop body succeeded (or was logged).
StepAfter(s) ==
  CASE s = "create" -> "settings"
    [] s = "settings" -> "owners"
    [] s = "owners" -> "managers"
    [] s = "managers" -> "members"
    [] s = "members" -> "remove"

\* reconcileGroups that treats any ReconcileMembers value as set.
Removal_AnyValue(g) ==
  IF Lookup(g.Settings, "ReconcileMembers") # ""
  THEN [op |-> "RemoveMembersFromGroup",
        members |-> (g.Owners \o g.Managers) \o g.Members]
  ELSE [op |-> "RemoveOwnerOrManagersFromGroup",
        members |-> g.Owners \o g.Managers]

\* Which removal reconcileGroups calls for g, and with which members.
Removal(g) ==
  IF Lookup(g.Settings, "ReconcileMembers") = "true"
  THEN [op |-> "RemoveMembersFromGroup",
        members |-> (g.Owners \o g.Managers) \o g.Members]
  ELSE [op |-> "RemoveOwnerOrManagersFromGroup",
        members |-> g.Owners \o g.Managers]

Call(op, i, g, role, members, ok) ==
  [op |-> op, idx |-> i, group |-> g.EmailId, role |-> role,
   members |-> members, ok |-> ok]

(* ------------------------------ Init ---------------------------------- *)
Init ==
  /\ pc = "loadConfig"
  /\ err = ""
  /\ restrictionsFile \in RestrictionFiles
  /\ restrictions = <<>>
  /\ walkPos = 0
  /\ visited = 0
  /\ groups = <<>>
  /\ origin = <<>>
  /\ lastMerge = NoMerge
  /\ loaded = FALSE
  /\ secretAccessed = FALSE
  /\ gi = 0
  /\ step = ""
  /\ calls = <<>>
  /\ failures = 0

(* ------------------------------ actions ------------------------------- *)
Fatal(e) == pc' = "fatal" /\ err' = e

\* config.Load (main:148)
ConfigLoad ==
  /\ pc = "loadConfig"
  /\ \E ok \in BOOLEAN :
       IF ok THEN pc' = "loadRestrictions" /\ err' = err ELSE Fatal("config")
  /\ UNCHANGED <<restrictionsFile, restrictions, walkPos, visited,
                 groups, origin, lastMerge, loaded, secretAccessed, gi, step,
                 calls, failures>>

\* restrictionsConfig.Load (main:159): the file cannot be read or parsed,
\* or it is compiled.
LoadRestrictions ==
  /\ pc = "loadRestrictions"
  /\ \E readable \in BOOLEAN :
       IF ~readable
       THEN Fatal("restrictions file") /\ UNCHANGED restrictions
       ELSE LET l == RestrictionsLoad(restrictionsFile)
            IN /\ restrictions' = l.Restrictions
               /\ pc' = AfterRestrictionsLoad(l.err)
               /\ err' = l.err
  /\ UNCHANGED <<restrictionsFile, walkPos, visited,
                 groups, origin, lastMerge, loaded, secretAccessed, gi, step,
                 calls, failures>>

\* The walk callback on an entry that cannot be accessed, read or parsed.
WalkError ==
  /\ pc = "walk"
  /\ \E j \in (walkPos + 1)..Len(Entries) :
       /\ walkPos = 0 => j = 1
       /\ walkPos' = j
       /\ \E e \in {"walk", "read", "parse"} :
            /\ e # "walk" => Base(Entries[j]) = "groups.yaml"
            /\ err' = e
            /\ pc' = AfterGroupsLoad(e)
  /\ UNCHANGED <<restrictionsFile, restrictions, visited,
                 groups, origin, lastMerge, loaded, secretAccessed, gi, step,
                 calls, failures>>

\* The walk callback on an entry that is not a groups.yaml file.
WalkSkip ==
  /\ pc = "walk"
  /\ \E j \in (walkPos + 1)..Len(Entries) :
       /\ walkPos = 0 => j = 1
       /\ Base(Entries[j]) # "groups.yaml"
       /\ walkPos' = j
  /\ UNCHANGED <<pc, err, restrictionsFile, restrictions, visited,
                 groups, origin, lastMerge, loaded, secretAccessed, gi, step,
                 calls, failures>>

\* The walk callback on a groups.yaml file that parses to the fragment b.
WalkFragment ==
  /\ pc = "walk"
  /\ \E j \in (walkPos + 1)..Len(Entries) :
       /\ walkPos = 0 => j = 1
       /\ Base(Entries[j]) = "groups.yaml"
       /\ walkPos' = j
       /\ \E b \in Fragments :
            /\ Len(groups) + Len(b) <= MaxGroups
            /\ LET path == Entries[j]
                   r == GetRestrictionForPath(restrictions, path, rootDir)
                   m == mergeGroups(groups, b, r)
                   l == LoadFragment(groups, b, r)
               IN /\ groups' = l.groups
                  /\ origin' = IF l.err = "" THEN origin \o [i \in DOMAIN b |-> path]
                               ELSE origin
                  /\ lastMerge' = [ok |-> m.err = "", called |-> TRUE, a |-> groups,
                                   b |-> b, r |-> r, path |-> path, err |-> m.err]
                  /\ err' = l.err
                  /\ pc' = IF l.err = "" THEN "walk" ELSE AfterGroupsLoad(l.err)
  /\ visited' = visited + 1
  /\ UNCHANGED <<restrictionsFile, restrictions,
                 loaded, secretAccessed, gi, step, calls, failures>>

\* filepath.Walk has no entry left: groupsConfig.Load returns nil.
WalkDone ==
  /\ pc = "walk"
  /\ walkPos >= 1
  /\ loaded' = TRUE
  /\ pc' = AfterGroupsLoad("")
  /\ UNCHANGED <<err, restrictionsFile, restrictions, walkPos,
                 visited, groups, origin, lastMerge, secretAccessed, gi, step,
                 calls, failures>>

\* accessSecretVersion, JWTConfigFromJSON, newReconciler (main:169-190),
\* then the branch on the -print flag and the entry into reconcileGroups.
Connect ==
  /\ pc = "connect"
  /\ secretAccessed' = TRUE
  /\ \E ok \in BOOLEAN, printConfig \in BOOLEAN :
       IF ~ok THEN Fatal("credentials") /\ UNCHANGED <<gi, step>>
       ELSE IF printConfig THEN pc' = "print" /\ UNCHANGED <<err, gi, step>>
       ELSE LET h == LoopHead(groups, 1)
            IN /\ gi' = 1
               /\ step' = h.step
               /\ err' = h.err
               /\ pc' = IF h.err # "" THEN "fatal" ELSE "reconcile"
  /\ UNCHANGED <<restrictionsFile, restrictions, walkPos, visited,
                 groups, origin, lastMerge, loaded, calls, failures>>

\* printGroupMembersAndSettings (main:192-198): read-only listing.
PrintGroups ==
  /\ pc = "print"
  /\ \E ok \in BOOLEAN : IF ok THEN pc' = "done" /\ err' = err ELSE Fatal("print")
  /\ UNCHANGED <<restrictionsFile, restrictions, walkPos, visited,
                 groups, origin, lastMerge, loaded, secretAccessed, gi, step,
                 calls, failures>>

\* One of the calls create/settings/owners/managers/members for groups[gi].
BodyStep(s, op, role, members) ==
  /\ pc = "reconcile"
  /\ step = s
  /\ \E ok \in BOOLEAN :
       /\ ~ok => failures < MaxFailures
       /\ failures' = IF ok THEN failures ELSE failures + 1
       /\ calls' = Append(calls, Call(op, gi, groups[gi], role, members, ok))
       /\ IF ~ok /\ Returns(s)
          THEN Fatal("client") /\ UNCHANGED step
          ELSE step' = StepAfter(s) /\ UNCHANGED <<pc, err>>
  /\ UNCHANGED <<restrictionsFile, restrictions, walkPos, visited,
                 groups, origin, lastMerge, loaded, secretAccessed, gi>>

CreateOrUpdateGroup ==
  BodyStep("create", "CreateOrUpdateGroupIfNescessary", "", <<>>)

UpdateGroupSettings ==
  BodyStep("settings", "UpdateGroupSettings", "", <<>>)

AddOwners ==
  /\ pc = "reconcile" /\ step = "owners"
  /\ BodyStep("owners", "AddOrUpdateGroupMembers", ownerRole, groups[gi].Owners)

AddManagers ==
  /\ pc = "reconcile" /\ step = "managers"
  /\ BodyStep("managers", "AddOrUpdateGroupMembers", managerRole, groups[gi].Managers)

AddMembers ==
  /\ pc = "reconcile" /\ step = "members"
  /\ BodyStep("members", "AddOrUpdateGroupMembers", memberRole, groups[gi].Members)

\* The removal call for groups[gi] and the head of the next iteration.
RemoveStep ==
  /\ pc = "reconcile"
  /\ step = "remove"
  /\ \E ok \in BOOLEAN :
       /\ ~ok => failures < MaxFailures
       /\ failures' = IF ok THEN failures ELSE failures + 1
       /\ LET rm == Removal(groups[gi])
          IN calls' = Append(calls, Call(rm.op, gi, groups[gi], "", rm.members, ok))
       /\ IF ~ok
          THEN Fatal("client") /\ UNCHANGED <<gi, step>>
          ELSE LET h == LoopHead(groups, gi + 1)
               IN /\ gi' = gi + 1
                  /\ step' = h.step
                  /\ err' = h.err
                  /\ pc' = IF h.err # "" THEN "fatal" ELSE "reconcile"
  /\ UNCHANGED <<restrictionsFile, restrictions, walkPos, visited,
                 groups, origin, lastMerge, loaded, secretAccessed>>

\* DeleteGroupsIfNecessary after the loop.
DeleteGroups ==
  /\ pc = "reconcile"
  /\ step = "delete"
  /\ \E ok \in BOOLEAN :
       /\ ~ok => failures < MaxFailures
       /\ failures' = IF ok THEN failures ELSE failures + 1
       /\ calls' = Append(calls,
            [op |-> "DeleteGroupsIfNecessary", idx |-> gi, group |-> <<>>, role |-> "",
             members |-> <<>>, ok |-> ok])
       /\ IF ok THEN pc' = "done" /\ err' = err ELSE Fatal("client")
  /\ UNCHANGED <<restrictionsFile, restrictions, walkPos, visited,
                 groups, origin, lastMerge, loaded, secretAccessed, gi, step>>

Next ==
  \/ ConfigLoad
  \/ LoadRestrictions
  \/ WalkError
  \/ WalkSkip
  \/ WalkFragment
  \/ WalkDone
  \/ Connect
  \/ PrintGroups
  \/ CreateOrUpdateGroup
  \/ UpdateGroupSettings
  \/ AddOwners
  \/ AddManagers
  \/ AddMembers
  \/ RemoveStep
  \/ DeleteGroups

Spec == Init /\ [][Next]_vars

(* ------------------------------ properties ---------------------------- *)
\* Declared restrictions whose glob matches the root-relative form of path.
Matching(rs, path) ==
  {i \in DOMAIN rs : Match(rs[i].Path, CleanPath(path, rootDir)).match}

Least(S) == CHOOSE i \in S : \A j \in S : i <= j

\* The restriction a fragment at path is held to, stated without the loop.
Selected(rs, path) ==
  IF Matching(rs, path) = {} THEN defaultRestriction
  ELSE rs[Least(Matching(rs, path))]

Allows(r, e) == \E n \in DOMAIN r.AllowedGroupsRe : MatchString(r.AllowedGroupsRe[n], e)

RemovalOps == {"RemoveMembersFromGroup", "RemoveOwnerOrManagersFromGroup"}

\* C1: every group of the accumulated list has a non-empty email-id and no
\* two groups of the list share an email-id (a fragment declaring the same
\* email-id twice is rejected instead of appended).
C1_UniqueNonEmptyIdentities ==
  \A i, j \in DOMAIN groups :
    /\ groups[i].EmailId # <<>>
    /\ i # j => groups[i].EmailId # groups[j].EmailId

\* C2: mergeGroups(A, B, r) succeeds iff every group of B has a non-empty
\* email-id, matches a regex of r and has an email-id absent from A; when it
\* fails an error is returned, the run is over and the accumulator still
\* holds exactly the groups of the earlier fragments.
C2_MergeSucceedsIff ==
  lastMerge.called =>
    /\ lastMerge.ok <=>
         \A k \in DOMAIN lastMerge.b :
           /\ lastMerge.b[k].EmailId # <<>>
           /\ Allows(lastMerge.r, lastMerge.b[k].EmailId)
           /\ \A i \in DOMAIN lastMerge.a :
                lastMerge.a[i].EmailId # lastMerge.b[k].EmailId
    /\ ~lastMerge.ok =>
         /\ groups = lastMerge.a
         /\ err = lastMerge.err /\ err # ""
         /\ pc = "fatal"

C2_Witness ==
  /\ lastMerge.called /\ ~lastMerge.ok
  /\ lastMerge.err = "duplicate"
  /\ Len(groups) > 0

\* C3: every accumulated group that came from the fragment at path p has an
\* email-id matching a regex of the restriction selected for p; a selected
\* restriction with no allowed regex contributes no group; under the default
\* restriction no merge fails with a restriction error.
C3_GroupsSatisfyRestriction ==
  /\ Len(origin) = Len(groups)
  /\ \A i \in DOMAIN groups :
       /\ Allows(Selected(restrictions, origin[i]), groups[i].EmailId)
       /\ Selected(restrictions, origin[i]).AllowedGroupsRe # <<>>
  /\ (lastMerge.called /\ Selected(restrictions, lastMerge.path) = defaultRestriction)
       => lastMerge.err # "restriction"

C3_Witness ==
  /\ \E i \in DOMAIN groups :
       Selected(restrictions, origin[i]) # defaultRestriction
  /\ \E i \in DOMAIN groups :
       Selected(restrictions, origin[i]) = defaultRestriction

\* C4: GetRestrictionForPath returns the declared restriction of lowest
\* index whose glob matches the root-relative path, and the default
\* restriction iff no declared glob matches.
C4_FirstMatchWins ==
  lastMerge.called =>
    LET M == Matching(restrictions, lastMerge.path)
    IN /\ (M = {}) <=> (lastMerge.r = defaultRestriction)
       /\ M # {} => lastMerge.r = restrictions[Least(M)]

C4_Witness ==
  /\ lastMerge.called
  /\ \E i, j \in Matching(restrictions, lastMerge.path) :
       i < j /\ restrictions[i] # restrictions[j]

C6_OnlyMemberFailureContinues ==
  /\ \A k \in DOMAIN calls :
       (~calls[k].ok /\ k < Len(calls)) =>
         /\ calls[k].op = "AddOrUpdateGroupMembers" /\ calls[k].role = memberRole
         /\ calls[k + 1].op \in RemovalOps
         /\ calls[k + 1].idx = calls[k].idx
  /\ (calls # <<>> /\ ~calls[Len(calls)].ok) =>
       IF calls[Len(calls)].op = "AddOrUpdateGroupMembers"
          /\ calls[Len(calls)].role = memberRole
       THEN pc = "reconcile" /\ step = "remove" /\ err = ""
       ELSE pc = "fatal" /\ err = "client"

C6_Witness ==
  \E k \in DOMAIN calls :
    /\ ~calls[k].ok
    /\ calls[Len(calls)].idx > calls[k].idx
    /\ ~calls[Len(calls)].ok

\* C7: every group gets at most one removal call and exactly one once its
\* iteration is over; it is the full-membership removal with
\* owners+managers+members iff Settings["ReconcileMembers"] is "true", and
\* the owner/manager removal with owners+managers otherwise.
C7_OneRemovalBySetting ==
  \A i \in DOMAIN groups :
    LET rem == {k \in DOMAIN calls : calls[k].idx = i /\ calls[k].op \in RemovalOps}
        g == groups[i]
    IN /\ Cardinality(rem) <= 1
       /\ (pc \in {"reconcile", "done"} /\ i < gi) => Cardinality(rem) = 1
       /\ \A k \in rem :
            IF <<"ReconcileMembers", "true">> \in g.Settings
            THEN /\ calls[k].op = "RemoveMembersFromGroup"
                 /\ calls[k].members = g.Owners \o g.Managers \o g.Members
            ELSE /\ calls[k].op = "RemoveOwnerOrManagersFromGroup"
                 /\ calls[k].members = g.Owners \o g.Managers

C7_Witness ==
  /\ \E k \in DOMAIN calls :
       /\ calls[k].op = "RemoveMembersFromGroup"
       /\ "p" \in Range(calls[k].members)
  /\ \E k \in DOMAIN calls :
       /\ calls[k].op = "RemoveOwnerOrManagersFromGroup"
       /\ groups[calls[k].idx].Settings # {}
       /\ "q" \notin Range(calls[k].members)

\* C9: the calls follow the merged list and, within a group, the order
\* create-or-update, settings, owners, managers, members, removal; the
\* deletion pass is the last call, issued once, after the removal of the
\* last group succeeded.
Rank(c) ==
  CASE c.op = "CreateOrUpdateGroupIfNescessary" -> 1
    [] c.op = "UpdateGroupSettings" -> 2
    [] c.op = "AddOrUpdateGroupMembers" /\ c.role = ownerRole -> 3
    [] c.op = "AddOrUpdateGroupMembers" /\ c.role = managerRole -> 4
    [] c.op = "AddOrUpdateGroupMembers" /\ c.role = memberRole -> 5
    [] c.op \in RemovalOps -> 6
    [] OTHER -> 0

C9_CallOrder ==
  /\ \A k \in DOMAIN calls :
       LET c == calls[k]
       IN /\ IF c.op = "DeleteGroupsIfNecessary"
             THEN k = Len(calls) /\ c.idx = Len(groups) + 1
             ELSE /\ c.idx \in DOMAIN groups
                  /\ c.group = groups[c.idx].EmailId
                  /\ Rank(c) \in 1..6
          /\ IF k = 1
             THEN (c.idx = 1 /\ Rank(c) <= 1)
             ELSE LET d == calls[k - 1]
                  IN IF Rank(d) = 6
                     THEN d.ok /\ c.idx = d.idx + 1 /\ Rank(c) <= 1
                     ELSE c.idx = d.idx /\ Rank(c) = Rank(d) + 1
  /\ (pc = "done" /\ step = "delete") =>
       /\ calls # <<>>
       /\ calls[Len(calls)].op = "DeleteGroupsIfNecessary"
       /\ calls[Len(calls)].ok

C9_Witness ==
  /\ pc = "done"
  /\ Len(groups) >= 2
  /\ Len(calls) = 6 * Len(groups) + 1
  /\ groups[1].Owners # groups[1].Managers

\* C8: with an invalid allowed-group regex or an invalid glob in
\* restrictions.yaml, no fragment is merged and no remote call is made.
InvalidPattern(file) ==
  \E i \in DOMAIN file :
    \/ BadGlob(file[i].Path)
    \/ \E j \in DOMAIN file[i].AllowedGroups : ~CompileOK(file[i].AllowedGroups[j])

C8_InvalidPatternIsFatal ==
  InvalidPattern(restrictionsFile) =>
    /\ ~lastMerge.called
    /\ ~secretAccessed
    /\ calls = <<>>

\* C10: the merge is append-only: every step leaves the accumulator a prefix
\* of its next value, a successful merge yields the accumulator followed by
\* the fragment in declaration order, and an empty fragment leaves it as is.
C10_AppendOnly ==
  [][ /\ IsPrefix(groups, groups')
      /\ (visited' # visited /\ lastMerge'.ok) => groups' = groups \o lastMerge'.b
      /\ (visited' # visited /\ lastMerge'.b = <<>>) => groups' = groups
      /\ visited' = visited => groups' = groups ]_vars

C10_Witness ==
  /\ visited = 2
  /\ lastMerge.ok
  /\ lastMerge.a # <<>> /\ lastMerge.b # <<>>
  /\ groups = lastMerge.a \o lastMerge.b
  /\ lastMerge.a # lastMerge.b
====
